---------------------------- MODULE Spec2Model ----------------------------
(***************************************************************************)
(* Model of the docstring benchmark pipeline:                              *)
(*   symbol_extractor.py   SymbolExtractor, extract_symbols_from_project   *)
(*   docstring_remover.py  DocstringRemover                                *)
(*   similarity_checker.py calculate_similarity, match_symbols             *)
(*   main.py               main                                            *)
(*                                                                         *)
(* A string is a sequence of tokens: "a.b.f" is <<"a", ".", "b", ".", "f">>, *)
(* where "." and "/" are the separators and every other token ("a",        *)
(* "__init__", "py", ...) is a run of characters holding neither.  A dict   *)
(* is a function (where only membership and values matter) or a sequence   *)
(* of <<key, value>> pairs in insertion order (where the iteration order   *)
(* of the dict matters).                                                   *)
(***************************************************************************)
EXTENDS Integers, Sequences, FiniteSets, TLC

VARIABLES
    trees,            \* the syntax tree of one file: as parsed, then after each strip
    extracted,        \* SymbolExtractor.symbols, per number of strips done before
    file_path,        \* _get_module_name: the file, as path components
    base_path,        \* SymbolExtractor.base_path, as path components
    module_name,      \* what _get_module_name returned, once it has
    summary_data,     \* match_symbols: the summary dict, in iteration order
    docstrings_data,  \* match_symbols: the docstrings dict, in iteration order
    results,          \* what match_symbols returned, once it has
    report,           \* what analyze_results printed, once it has
    projects,         \* main: per project, its .py files as os.walk yields them
    original,         \* the content of each file when main starts
    disk,             \* the content of each file
    pc,               \* where the program stands
    proj,             \* main: the project being processed
    idx,              \* the file the loop over a project's files is at
    project_symbols,  \* extract_symbols_from_project: its all_symbols
    all_symbols       \* main: all_symbols

treeVars == <<trees, extracted>>
nameVars == <<file_path, base_path, module_name>>
matchVars == <<summary_data, docstrings_data, results, report>>
mainVars == <<projects, original, disk, proj, idx, project_symbols, all_symbols>>
vars == <<pc, treeVars, nameVars, matchVars, mainVars>>

-----------------------------------------------------------------------------
(* Bounds *)

\* statements (of any kind, at any depth) in one parsed module
MaxNodes == 4
\* DocstringRemover runs on the same tree
MaxStrips == 2
\* directories between the project path and a file
MaxDepth == 2
\* dot-separated parts of a file name, the extension apart
MaxNameParts == 2
\* entries of the summary dict and of the docstrings dict
MaxSummary == 2
MaxTarget == 3
\* .py files in all the projects together
MaxFiles == 2

-----------------------------------------------------------------------------
(* Syntax trees (what ast.parse returns)                                   *)
(* A statement is a record [kind, name, value, body].                      *)
(*   Expr            an expression statement; value.type says what its     *)
(*                   expression is: "str" a string constant, "int" another *)
(*                   constant                                              *)
(*   Pass            any other simple statement                            *)
(*   ClassDef, FunctionDef, AsyncFunctionDef   declarations                *)
(*   If              any other compound statement                          *)

NoValue == [type |-> "none", v |-> ""]
StrValues == {"hi", "doc"}
DeclNames == {"C", "f"}
DeclKinds == {"ClassDef", "FunctionDef", "AsyncFunctionDef"}

SimpleStmts ==
    {[kind |-> "Expr", name |-> "", value |-> [type |-> "str", v |-> s], body |-> <<>>] :
        s \in StrValues}
    \cup {[kind |-> "Expr", name |-> "", value |-> [type |-> "int", v |-> "0"], body |-> <<>>]}
    \cup {[kind |-> "Pass", name |-> "", value |-> NoValue, body |-> <<>>]}

Headers ==
    {[kind |-> k, name |-> n] : k \in DeclKinds, n \in DeclNames}
    \cup {[kind |-> "If", name |-> ""]}

RECURSIVE StmtsOfSize(_), BodiesOfSize(_)
\* the statements made of exactly n statements; a compound statement's body
\* is never empty in a parsed tree
StmtsOfSize(n) ==
    IF n = 1 THEN SimpleStmts
    ELSE {[kind |-> h.kind, name |-> h.name, value |-> NoValue, body |-> b] :
            h \in Headers, b \in BodiesOfSize(n - 1)}

\* the statement lists made of exactly n statements in all
BodiesOfSize(n) ==
    IF n = 0 THEN {<<>>}
    ELSE UNION {{<<s>> \o r : s \in StmtsOfSize(k), r \in BodiesOfSize(n - k)} :
                  k \in 1..n}

\* the modules of at most n statements
ModulesUpTo(n) ==
    {[kind |-> "Module", name |-> "", value |-> NoValue, body |-> b] :
        b \in UNION {BodiesOfSize(k) : k \in 0..n}}

-----------------------------------------------------------------------------
(* The docstring test both visitors make on a body *)

\* node.body and isinstance(node.body[0], ast.Expr) and
\* isinstance(node.body[0].value, ast.Constant) and
\* isinstance(node.body[0].value.value, str)
HasDocstring(body) ==
    /\ body # <<>>
    /\ body[1].kind = "Expr"
    /\ body[1].value.type = "str"

-----------------------------------------------------------------------------
(* symbol_extractor.py: SymbolExtractor *)

EmptyDict == [k \in {} |-> ""]

\* d[key] = value
DictSet(d, key, value) ==
    [k \in DOMAIN d \cup {key} |-> IF k = key THEN value ELSE d[k]]

\* f"{self.current_module}.{node.name}"
Fqn(current_module, node) == current_module \o <<".", node.name>>

RECURSIVE Extractor_generic_visit(_, _, _), Extractor_visit(_, _, _),
          Extractor_visit_list(_, _, _)

Extractor_visit_Module(current_module, node, symbols) ==
    LET s1 == IF HasDocstring(node.body)
              THEN DictSet(symbols, current_module, node.body[1].value.v)
              ELSE symbols
    IN  Extractor_generic_visit(current_module, node, s1)

Extractor_visit_ClassDef(current_module, node, symbols) ==
    LET class_fqn == Fqn(current_module, node)
        s1 == IF HasDocstring(node.body)
              THEN DictSet(symbols, class_fqn, node.body[1].value.v)
              ELSE symbols
    IN  Extractor_generic_visit(current_module, node, s1)

Extractor_visit_FunctionDef(current_module, node, symbols) ==
    LET function_fqn == Fqn(current_module, node)
        s1 == IF HasDocstring(node.body)
              THEN DictSet(symbols, function_fqn, node.body[1].value.v)
              ELSE symbols
    IN  Extractor_generic_visit(current_module, node, s1)

Extractor_visit_AsyncFunctionDef(current_module, node, symbols) ==
    LET function_fqn == Fqn(current_module, node)
        s1 == IF HasDocstring(node.body)
              THEN DictSet(symbols, function_fqn, node.body[1].value.v)
              ELSE symbols
    IN  Extractor_generic_visit(current_module, node, s1)

\* ast.NodeVisitor.visit: dispatch on the node's class
Extractor_visit(current_module, node, symbols) ==
    CASE node.kind = "Module" -> Extractor_visit_Module(current_module, node, symbols)
      [] node.kind = "ClassDef" -> Extractor_visit_ClassDef(current_module, node, symbols)
      [] node.kind = "FunctionDef" ->
            Extractor_visit_FunctionDef(current_module, node, symbols)
      [] node.kind = "AsyncFunctionDef" ->
            Extractor_visit_AsyncFunctionDef(current_module, node, symbols)
      [] OTHER -> Extractor_generic_visit(current_module, node, symbols)

\* the statements of a body, in order
Extractor_visit_list(current_module, stmts, symbols) ==
    IF stmts = <<>> THEN symbols
    ELSE Extractor_visit_list(current_module, Tail(stmts),
                              Extractor_visit(current_module, Head(stmts), symbols))

\* ast.NodeVisitor.generic_visit: visit the children
Extractor_generic_visit(current_module, node, symbols) ==
    Extractor_visit_list(current_module, node.body, symbols)

\* extractor = SymbolExtractor(...); extractor.visit(tree); extractor.symbols
ExtractSymbols(current_module, tree) ==
    Extractor_visit(current_module, tree, EmptyDict)

-----------------------------------------------------------------------------
(* docstring_remover.py: DocstringRemover *)

RECURSIVE Remover_generic_visit(_), Remover_visit(_), Remover_visit_list(_)

Remover_visit_Module(node) ==
    Remover_generic_visit(
        IF HasDocstring(node.body) THEN [node EXCEPT !.body = Tail(node.body)] ELSE node)

Remover_visit_ClassDef(node) ==
    Remover_generic_visit(
        IF HasDocstring(node.body) THEN [node EXCEPT !.body = Tail(node.body)] ELSE node)

Remover_visit_FunctionDef(node) ==
    Remover_generic_visit(
        IF HasDocstring(node.body) THEN [node EXCEPT !.body = Tail(node.body)] ELSE node)

Remover_visit_AsyncFunctionDef(node) ==
    Remover_generic_visit(
        IF HasDocstring(node.body) THEN [node EXCEPT !.body = Tail(node.body)] ELSE node)

\* ast.NodeVisitor.visit: dispatch on the node's class
Remover_visit(node) ==
    CASE node.kind = "Module" -> Remover_visit_Module(node)
      [] node.kind = "ClassDef" -> Remover_visit_ClassDef(node)
      [] node.kind = "FunctionDef" -> Remover_visit_FunctionDef(node)
      [] node.kind = "AsyncFunctionDef" -> Remover_visit_AsyncFunctionDef(node)
      [] OTHER -> Remover_generic_visit(node)

\* every visit_* returns its node, so no statement is dropped here
Remover_visit_list(stmts) ==
    IF stmts = <<>> THEN <<>>
    ELSE <<Remover_visit(Head(stmts))>> \o Remover_visit_list(Tail(stmts))

\* ast.NodeTransformer.generic_visit: replace the children by their visits
Remover_generic_visit(node) ==
    [node EXCEPT !.body = Remover_visit_list(node.body)]

-----------------------------------------------------------------------------
(* What ast.parse accepts *)

RECURSIVE WellFormed(_)
\* a compound statement has at least one statement in its body; the text
\* ast.unparse gives for a tree that breaks this does not parse again
WellFormed(node) ==
    /\ node.kind \in DeclKinds \cup {"If"} => node.body # <<>>
    /\ \A i \in 1..Len(node.body) : WellFormed(node.body[i])

\* a file that cannot be read, or whose text is no Python source
Malformed == [kind |-> "Malformed", name |-> "", value |-> NoValue, body |-> <<>>]

\* open(...).read() or ast.parse(source_code) raises
ParseFails(content) == content.kind # "Module" \/ ~WellFormed(content)

-----------------------------------------------------------------------------
(* Strings *)

\* s.endswith(suffix)
EndsWith(s, suffix) ==
    /\ Len(s) >= Len(suffix)
    /\ SubSeq(s, Len(s) - Len(suffix) + 1, Len(s)) = suffix

\* s[:-k], for the k characters that make the last n tokens of s
DropLast(s, n) == SubSeq(s, 1, Len(s) - n)

\* s.replace(old, new), old and new single characters
Replace(s, old, new) == [i \in 1..Len(s) |-> IF s[i] = old THEN new ELSE s[i]]

RECURSIVE Join(_, _)
\* sep.join(parts)
Join(parts, sep) ==
    IF parts = <<>> THEN <<>>
    ELSE IF Len(parts) = 1 THEN parts[1]
    ELSE parts[1] \o <<sep>> \o Join(Tail(parts), sep)

\* s.split('.')[-1]
LastSegment(s) ==
    LET dots == {i \in 1..Len(s) : s[i] = "."}
    IN  IF dots = {} THEN s
        ELSE SubSeq(s, (CHOOSE i \in dots : \A j \in dots : j <= i) + 1, Len(s))

RECURSIVE SumOver(_, _)
\* the sum of f[x] for x in S
SumOver(f, S) ==
    IF S = {} THEN 0
    ELSE LET x == CHOOSE y \in S : TRUE
         IN  f[x] + SumOver(f, S \ {x})

-----------------------------------------------------------------------------
(* symbol_extractor.py: SymbolExtractor._get_module_name                   *)
(* A path is the sequence of its components, each a string.                *)

\* os.path.relpath(file_path, base_path), for a file below base_path (every
\* file os.walk(base_path) yields is)
RelPath(path, base) == Join(SubSeq(path, Len(base) + 1, Len(path)), "/")

get_module_name(path, base) ==
    LET rel_path == RelPath(path, base)
        \* if rel_path.endswith('.py'): rel_path = rel_path[:-3]
        stem == IF EndsWith(rel_path, <<".", "py">>) THEN DropLast(rel_path, 2)
                ELSE rel_path
        \* rel_path.replace(os.sep, '.')
        dotted == Replace(stem, "/", ".")
    IN  \* if module_name.endswith('.__init__'): module_name = module_name[:-9]
        IF EndsWith(dotted, <<".", "__init__">>) THEN DropLast(dotted, 2) ELSE dotted

-----------------------------------------------------------------------------
(* similarity_checker.py: calculate_similarity                             *)
(* A text is the sequence of the tokens TfidfVectorizer finds in it,       *)
(* lower-cased.  The score is the square of the cosine, in thousandths     *)
(* rounded down: it orders the pairs as the cosine does and is 0 exactly   *)
(* when the cosine is.  max_features=100 drops no term: the vocabulary of   *)
(* two texts of the model has fewer.                                       *)

\* stop_words='english'
StopWords == {"the"}

Count(text, w) == Cardinality({i \in 1..Len(text) : text[i] = w})
Terms(text) == {text[i] : i \in 1..Len(text)} \ StopWords

calculate_similarity(text1, text2) ==
    IF text1 = <<>> \/ text2 = <<>> THEN 0
    ELSE
        LET vocabulary == Terms(text1) \cup Terms(text2)
            \* the square of idf = ln((1 + 2) / (1 + df)) + 1, in fortieths:
            \* 1 for a term of both texts, (1 + ln 1.5)^2 = 1.975 for a term of one
            idf2 == [w \in vocabulary |->
                        IF w \in Terms(text1) /\ w \in Terms(text2) THEN 40 ELSE 79]
            dot == SumOver([w \in vocabulary |->
                                Count(text1, w) * Count(text2, w) * idf2[w]], vocabulary)
            norm1 == SumOver([w \in vocabulary |->
                                Count(text1, w) * Count(text1, w) * idf2[w]], vocabulary)
            norm2 == SumOver([w \in vocabulary |->
                                Count(text2, w) * Count(text2, w) * idf2[w]], vocabulary)
        IN  \* fit_transform raises on an empty vocabulary: except: return 0.0;
            \* cosine_similarity gives 0 for a vector that is all zero
            IF vocabulary = {} \/ norm1 = 0 \/ norm2 = 0 THEN 0
            ELSE (dot * dot * 1000) \div (norm1 * norm2)

-----------------------------------------------------------------------------
(* similarity_checker.py: match_symbols *)

NO_MATCH == <<"NO_MATCH">>
\* best_match = None
None == <<>>

KeysOf(d) == {d[i][1] : i \in 1..Len(d)}
\* d[key]
Lookup(d, key) == d[CHOOSE i \in 1..Len(d) : d[i][1] = key][2]

RECURSIVE ScanCandidates(_, _, _, _)
\* for docstring_key, docstring_desc in docstrings_data.items(): ...
\* best is (best_match, best_similarity, best_docstring_desc)
ScanCandidates(summary_key, summary_desc, items, best) ==
    IF items = <<>> THEN best
    ELSE
        LET docstring_key == items[1][1]
            docstring_desc == items[1][2]
            similarity == calculate_similarity(summary_desc, docstring_desc)
            next == IF /\ LastSegment(summary_key) = LastSegment(docstring_key)
                       /\ similarity > best.similarity
                    THEN [match |-> docstring_key, similarity |-> similarity,
                          desc |-> docstring_desc]
                    ELSE best
        IN  ScanCandidates(summary_key, summary_desc, Tail(items), next)

\* the else branch: match by suffix
FuzzyMatch(summary_key, summary_desc, data) ==
    LET best == ScanCandidates(summary_key, summary_desc, data,
                               [match |-> None, similarity |-> 0, desc |-> <<>>])
    IN  \* if best_match: (None is false, and so is an empty key)
        IF best.match # None
        THEN [summary_symbol |-> summary_key,
              docstring_symbol |-> best.match,
              similarity |-> best.similarity,
              summary_description |-> summary_desc,
              docstring_description |-> best.desc]
        ELSE [summary_symbol |-> summary_key,
              docstring_symbol |-> NO_MATCH,
              similarity |-> 0,
              summary_description |-> summary_desc,
              docstring_description |-> <<>>]

\* if summary_key in docstrings_data: the exact match
ExactMatch(summary_key, summary_desc, data) ==
    LET docstring_desc == Lookup(data, summary_key)
    IN  [summary_symbol |-> summary_key,
         docstring_symbol |-> summary_key,
         similarity |-> calculate_similarity(summary_desc, docstring_desc),
         summary_description |-> summary_desc,
         docstring_description |-> docstring_desc]

\* a matcher that takes the best-scoring entry with the leaf, exact or not
MatchEntry_BestScore(summary_key, summary_desc, data) ==
    LET fuzzy == FuzzyMatch(summary_key, summary_desc, data)
    IN  IF fuzzy.docstring_symbol = NO_MATCH /\ summary_key \in KeysOf(data)
        THEN ExactMatch(summary_key, summary_desc, data)
        ELSE fuzzy

\* one turn of the loop over summary_data.items()
MatchEntry(summary_key, summary_desc, data) ==
    IF summary_key \in KeysOf(data)
    THEN ExactMatch(summary_key, summary_desc, data)
    ELSE FuzzyMatch(summary_key, summary_desc, data)

match_symbols(summary, data) ==
    [i \in 1..Len(summary) |-> MatchEntry(summary[i][1], summary[i][2], data)]

-----------------------------------------------------------------------------
(* similarity_checker.py: analyze_results                                  *)
(* The report is what the function prints: the message, and below the      *)
(* heading the counts, the statistics (in thousandths, rounded down) and   *)
(* the top pairs.                                                          *)

\* nothing printed yet
NotPrinted == [message |-> ""]

\* the sum of the numbers of a sequence
RECURSIVE SumSeq(_)
SumSeq(xs) == IF xs = <<>> THEN 0 ELSE Head(xs) + SumSeq(Tail(xs))

\* sorted(xs): xs[i] goes to the place after the smaller numbers and the
\* equal numbers before it
Sorted(xs) ==
    LET place(i) == Cardinality({j \in 1..Len(xs) :
                        xs[j] < xs[i] \/ (xs[j] = xs[i] /\ j < i)}) + 1
    IN  [k \in 1..Len(xs) |-> xs[CHOOSE i \in 1..Len(xs) : place(i) = k]]

\* np.median
Median(xs) ==
    LET sorted == Sorted(xs)
        n == Len(xs)
    IN  IF n % 2 = 1 THEN sorted[(n + 1) \div 2]
        ELSE (sorted[n \div 2] + sorted[n \div 2 + 1]) \div 2

\* sorted(results, key=lambda x: x["similarity"], reverse=True): stable, the
\* results of one similarity keep their order
SortedBySimilarity(rs) ==
    LET place(i) == Cardinality({j \in 1..Len(rs) :
                        \/ rs[j].similarity > rs[i].similarity
                        \/ (rs[j].similarity = rs[i].similarity /\ j < i)}) + 1
    IN  [k \in 1..Len(rs) |-> rs[CHOOSE i \in 1..Len(rs) : place(i) = k]]

analyze_results(rs) ==
    LET positive(r) == r.similarity > 0
        similarities == [i \in 1..Len(SelectSeq(rs, positive)) |->
                            SelectSeq(rs, positive)[i].similarity]
        sorted_results == SortedBySimilarity(rs)
    IN  IF similarities = <<>>
        THEN [message |-> "No valid similarities found."]
        ELSE [message |-> "Analysis Summary:",
              total |-> Len(rs),
              exact_matches |-> Cardinality({i \in 1..Len(rs) :
                    /\ rs[i].summary_symbol = rs[i].docstring_symbol
                    /\ rs[i].docstring_symbol # NO_MATCH}),
              fuzzy_matches |-> Cardinality({i \in 1..Len(rs) :
                    /\ rs[i].summary_symbol # rs[i].docstring_symbol
                    /\ rs[i].docstring_symbol # NO_MATCH}),
              no_matches |-> Cardinality({i \in 1..Len(rs) :
                    rs[i].docstring_symbol = NO_MATCH}),
              mean_similarity |-> SumSeq(similarities) \div Len(similarities),
              median_similarity |-> Median(similarities),
              max_similarity |-> Sorted(similarities)[Len(similarities)],
              min_similarity |-> Sorted(similarities)[1],
              \* sorted_results[:5]
              top |-> SubSeq(sorted_results, 1,
                             IF Len(sorted_results) > 5 THEN 5 ELSE Len(sorted_results))]

-----------------------------------------------------------------------------
(* symbol_extractor.py: extract_symbols_from_file *)

\* a merge that keeps the value a key already has
DictUpdate_KeepFirst(d, other) ==
    [k \in DOMAIN d \cup DOMAIN other |-> IF k \in DOMAIN d THEN d[k] ELSE other[k]]

\* d.update(other)
DictUpdate(d, other) ==
    [k \in DOMAIN d \cup DOMAIN other |-> IF k \in DOMAIN other THEN other[k] ELSE d[k]]

\* the file parsed; a SymbolExtractor(file_path, base_path) visits the tree
extract_symbols_from_file(content, path, base) ==
    ExtractSymbols(get_module_name(path, base), content)

-----------------------------------------------------------------------------
(* Inputs *)

\* sequences over S of length 0..n
SeqsUpTo(S, n) == UNION {[1..k -> S] : k \in 0..n}

PyExt == <<".", "py">>

\* _get_module_name: the project path, the directories and the file names
BasePath == <<<<"projects">>, <<"flask">>>>
DirNames == {<<"a">>, <<"b">>}
NameParts == {<<"a">>, <<"b">>, <<"__init__">>}
FileNames == {Join(parts, ".") \o PyExt : parts \in SeqsUpTo(NameParts, MaxNameParts) \ {<<>>}}
FilePaths == {BasePath \o dirs \o <<file>> :
                dirs \in SeqsUpTo(DirNames, MaxDepth), file \in FileNames}

\* match_symbols: dicts of at most n entries, in every insertion order
SummaryKeys == {<<"a", ".", "f">>, <<"c", ".", "f">>}
DocstringKeys == {<<"a", ".", "f">>, <<"b", ".", "f">>, <<"a", ".", "g">>}
Texts == {<<>>, <<"the">>, <<"alpha">>, <<"beta">>, <<"alpha", "beta">>}
\* keys of the dicts given to match_symbols, one of them the sentinel's text
CheckerSummaryKeys == {<<"a", ".", "f">>, <<"NO_MATCH">>}
CheckerDocstringKeys == {<<"a", ".", "f">>, <<"b", ".", "f">>, <<"NO_MATCH">>}
DictsUpTo(keys, n) ==
    {d \in SeqsUpTo(keys \X Texts, n) :
        \A i, j \in 1..Len(d) : d[i][1] = d[j][1] => i = j}

\* main: the .py files of a project in the order os.walk yields them, the
\* files of the top directory (in any order) before those of its package a
ProjectNames == <<"flask", "requests">>
FileA == <<<<"a">> \o PyExt>>
FileB == <<<<"b">> \o PyExt>>
FilePkgInit == <<<<"a">>, <<"__init__">> \o PyExt>>
Walks ==
    {top \o pkg : top \in {<<>>, <<FileA>>, <<FileB>>, <<FileA, FileB>>, <<FileB, FileA>>},
                  pkg \in {<<>>, <<FilePkgInit>>}}

StrStmt(s) ==
    [kind |-> "Expr", name |-> "", value |-> [type |-> "str", v |-> s], body |-> <<>>]
FuncDef(name, body) ==
    [kind |-> "FunctionDef", name |-> name, value |-> NoValue, body |-> body]
ModuleOf(body) == [kind |-> "Module", name |-> "", value |-> NoValue, body |-> body]

\* what a file of a project holds
Sources ==
    {Malformed, ModuleOf(<<>>),
     ModuleOf(<<StrStmt("hi"), FuncDef("f", <<StrStmt("doc")>>)>>)}
    \cup {ModuleOf(<<StrStmt(s)>>) : s \in StrValues}
    \cup {ModuleOf(<<FuncDef("f", <<StrStmt(s)>>)>>) : s \in StrValues}

\* the files of the projects: <<project, position in its walk>>
FileIds(ps) == {id \in (1..Len(ps)) \X (1..MaxFiles) : id[2] <= Len(ps[id[1]])}

\* os.path.join(root, file)
PathOf(ps, p, i) == <<<<"projects">>, <<ProjectNames[p]>>>> \o ps[p][i]
ProjectPath(p) == <<<<"projects">>, <<ProjectNames[p]>>>>

-----------------------------------------------------------------------------
(* The variables a specification does not use *)

IdleTree == trees = <<>> /\ extracted = <<>>
IdleName == file_path = <<>> /\ base_path = <<>> /\ module_name = <<>>
IdleMatch ==
    /\ summary_data = <<>> /\ docstrings_data = <<>> /\ results = <<>>
    /\ report = NotPrinted
IdleMain ==
    /\ projects = <<>> /\ original = <<>> /\ disk = <<>> /\ proj = 0 /\ idx = 0
    /\ project_symbols = EmptyDict /\ all_symbols = EmptyDict

-----------------------------------------------------------------------------
(* One file: parse, then extract and strip in any order *)

\* the module of the file the tree was parsed from
TreeModule == <<"a", ".", "b">>

Tree == trees[Len(trees)]
Strips == Len(trees) - 1

InitTree ==
    /\ trees \in {<<m>> : m \in ModulesUpTo(MaxNodes)}
    /\ extracted = <<>>
    /\ pc = "tree"
    /\ IdleName /\ IdleMatch /\ IdleMain

\* extractor.visit(tree)
Extract ==
    /\ pc = "tree"
    /\ Strips \notin DOMAIN extracted
    /\ extracted' = [n \in DOMAIN extracted \cup {Strips} |->
                        IF n = Strips THEN ExtractSymbols(TreeModule, Tree)
                        ELSE extracted[n]]
    /\ UNCHANGED <<trees, pc, nameVars, matchVars, mainVars>>

\* transformer.visit(tree)
Strip ==
    /\ pc = "tree"
    /\ Strips < MaxStrips
    /\ trees' = Append(trees, Remover_visit(Tree))
    /\ UNCHANGED <<extracted, pc, nameVars, matchVars, mainVars>>

NextTree == Extract \/ Strip

SpecTree == InitTree /\ [][NextTree]_vars

-----------------------------------------------------------------------------
(* SymbolExtractor(file_path, base_path): the module name of one file *)

InitName ==
    /\ base_path = BasePath
    /\ file_path \in FilePaths
    /\ module_name = <<>>
    /\ pc = "name"
    /\ IdleTree /\ IdleMatch /\ IdleMain

\* self.current_module = self._get_module_name(file_path)
GetModuleName ==
    /\ pc = "name"
    /\ module_name' = get_module_name(file_path, base_path)
    /\ pc' = "named"
    /\ UNCHANGED <<file_path, base_path, treeVars, matchVars, mainVars>>

NextName == GetModuleName

SpecName == InitName /\ [][NextName]_vars

-----------------------------------------------------------------------------
(* match_symbols(summary_data, docstrings_data) *)

InitMatch ==
    /\ summary_data \in DictsUpTo(SummaryKeys, MaxSummary)
    /\ docstrings_data \in DictsUpTo(DocstringKeys, MaxTarget)
    /\ results = <<>>
    /\ report = NotPrinted
    /\ pc = "match"
    /\ IdleTree /\ IdleName /\ IdleMain

MatchSymbols ==
    /\ pc = "match"
    /\ results' = match_symbols(summary_data, docstrings_data)
    /\ pc' = "matched"
    /\ UNCHANGED <<summary_data, docstrings_data, report, treeVars, nameVars, mainVars>>

NextMatch == MatchSymbols

SpecMatch == InitMatch /\ [][NextMatch]_vars

-----------------------------------------------------------------------------
(* similarity_checker.py: match_symbols, then analyze_results on what it   *)
(* returned, as main calls them, over dicts in which a symbol can be named *)
(* as the sentinel is                                                      *)

InitChecker ==
    /\ summary_data \in DictsUpTo(CheckerSummaryKeys, MaxSummary)
    /\ docstrings_data \in DictsUpTo(CheckerDocstringKeys, MaxTarget)
    /\ results = <<>>
    /\ report = NotPrinted
    /\ pc = "match"
    /\ IdleTree /\ IdleName /\ IdleMain

\* analyze_results(results)
AnalyzeResults ==
    /\ pc = "matched"
    /\ report' = analyze_results(results)
    /\ pc' = "analyzed"
    /\ UNCHANGED <<summary_data, docstrings_data, results, treeVars, nameVars, mainVars>>

NextChecker == MatchSymbols \/ AnalyzeResults

SpecChecker == InitChecker /\ [][NextChecker]_vars

-----------------------------------------------------------------------------
(* main: for each project, extract its project_symbols, then strip its docstrings *)

InitMain ==
    /\ projects \in {ps \in [1..Len(ProjectNames) -> Walks] :
                        SumOver([p \in 1..Len(ps) |-> Len(ps[p])], 1..Len(ps)) <= MaxFiles}
    /\ disk \in [FileIds(projects) -> Sources]
    /\ original = disk
    /\ pc = "extract"
    /\ proj = 1
    /\ idx = 1
    /\ project_symbols = EmptyDict
    /\ all_symbols = EmptyDict
    /\ IdleTree /\ IdleName /\ IdleMatch

\* extract_symbols_from_project, one file: the try body runs through
ExtractFileOk ==
    /\ pc = "extract"
    /\ idx <= Len(projects[proj])
    /\ ~ParseFails(disk[<<proj, idx>>])
    /\ project_symbols' = DictUpdate(project_symbols,
                    extract_symbols_from_file(disk[<<proj, idx>>],
                                              PathOf(projects, proj, idx),
                                              ProjectPath(proj)))
    /\ idx' = idx + 1
    /\ UNCHANGED <<projects, original, disk, pc, proj, all_symbols, treeVars, nameVars, matchVars>>

\* a try around the whole loop instead of one file: the first failure ends
\* the extraction of the project
ExtractFileError_Abort ==
    /\ pc = "extract"
    /\ idx <= Len(projects[proj])
    /\ ParseFails(disk[<<proj, idx>>])
    /\ idx' = Len(projects[proj]) + 1
    /\ UNCHANGED <<projects, original, disk, pc, proj, project_symbols, all_symbols,
                   treeVars, nameVars, matchVars>>

\* extract_symbols_from_project, one file: except Exception
ExtractFileError ==
    /\ pc = "extract"
    /\ idx <= Len(projects[proj])
    /\ ParseFails(disk[<<proj, idx>>])
    /\ idx' = idx + 1
    /\ UNCHANGED <<projects, original, disk, pc, proj, project_symbols, all_symbols,
                   treeVars, nameVars, matchVars>>

\* return all_symbols; main: all_symbols.update(symbols)
ReturnSymbols ==
    /\ pc = "extract"
    /\ idx > Len(projects[proj])
    /\ all_symbols' = DictUpdate(all_symbols, project_symbols)
    /\ pc' = "strip"
    /\ idx' = 1
    /\ UNCHANGED <<projects, original, disk, proj, project_symbols, treeVars, nameVars, matchVars>>

\* remove_docstrings_from_project, one file: the try body runs through
RemoveFileOk ==
    /\ pc = "strip"
    /\ idx <= Len(projects[proj])
    /\ ~ParseFails(disk[<<proj, idx>>])
    /\ disk' = [disk EXCEPT ![<<proj, idx>>] = Remover_visit(disk[<<proj, idx>>])]
    /\ idx' = idx + 1
    /\ UNCHANGED <<projects, original, pc, proj, project_symbols, all_symbols, treeVars, nameVars, matchVars>>

\* remove_docstrings_from_project, one file: except Exception
RemoveFileError ==
    /\ pc = "strip"
    /\ idx <= Len(projects[proj])
    /\ ParseFails(disk[<<proj, idx>>])
    /\ idx' = idx + 1
    /\ UNCHANGED <<projects, original, disk, pc, proj, project_symbols, all_symbols,
                   treeVars, nameVars, matchVars>>

\* what a file can hold when f.write(new_source_code), or the flush on leaving
\* the with block, raises: open(file_path, 'w') has emptied the file, and of
\* the new text either nothing, or its first statements, or a text cut inside
\* a statement has reached it.  An empty text has nothing to write.
PartialWrites(new_source_code) ==
    IF new_source_code.body = <<>> THEN {}
    ELSE {ModuleOf(SubSeq(new_source_code.body, 1, k)) :
                k \in 0..(Len(new_source_code.body) - 1)} \cup {Malformed}

\* remove_docstrings_from_project, one file: the new text is there and
\* open(file_path, 'w') raises (the file is as it was), or the write raises;
\* except Exception
RemoveFileWriteError ==
    /\ pc = "strip"
    /\ idx <= Len(projects[proj])
    /\ ~ParseFails(disk[<<proj, idx>>])
    /\ \E content \in {disk[<<proj, idx>>]}
                        \cup PartialWrites(Remover_visit(disk[<<proj, idx>>])) :
            disk' = [disk EXCEPT ![<<proj, idx>>] = content]
    /\ idx' = idx + 1
    /\ UNCHANGED <<projects, original, pc, proj, project_symbols, all_symbols,
                   treeVars, nameVars, matchVars>>

\* the next project, or save_symbols_to_json after the last
NextProject ==
    /\ pc = "strip"
    /\ idx > Len(projects[proj])
    /\ IF proj < Len(projects)
       THEN /\ proj' = proj + 1
            /\ pc' = "extract"
            /\ idx' = 1
            /\ project_symbols' = EmptyDict
       ELSE /\ pc' = "done"
            /\ UNCHANGED <<proj, idx, project_symbols>>
    /\ UNCHANGED <<projects, original, disk, all_symbols, treeVars, nameVars, matchVars>>

NextMain ==
    \/ ExtractFileOk
    \/ ExtractFileError
    \/ ReturnSymbols
    \/ RemoveFileOk
    \/ RemoveFileError
    \/ RemoveFileWriteError
    \/ NextProject

SpecMain == InitMain /\ [][NextMain]_vars

-----------------------------------------------------------------------------
(* Qualified names as the design states them: the module identifier, then   *)
(* the names of the enclosing declarations, then the declaration's own name *)

IsDecl(node) == node.kind \in DeclKinds

RECURSIVE DeclsOfNode(_, _), DeclsOfList(_, _)
\* the declarations of a tree in pre-order, each with the names of the
\* declarations that enclose it (scope)
DeclsOfNode(node, scope) ==
    CASE node.kind = "Module" ->
            <<[scope |-> <<>>, name |-> <<>>, node |-> node]>>
            \o DeclsOfList(node.body, <<>>)
      [] IsDecl(node) ->
            <<[scope |-> scope, name |-> <<node.name>>, node |-> node]>>
            \o DeclsOfList(node.body, Append(scope, node.name))
      [] OTHER -> DeclsOfList(node.body, scope)

DeclsOfList(stmts, scope) ==
    IF stmts = <<>> THEN <<>>
    ELSE DeclsOfNode(Head(stmts), scope) \o DeclsOfList(Tail(stmts), scope)

QualifiedName(d) == Join(<<TreeModule>> \o [i \in 1..Len(d.scope \o d.name) |-> <<(d.scope \o d.name)[i]>>], ".")

\* the key the extractor computes for a declaration
CodeKey(d) ==
    IF d.node.kind = "Module" THEN TreeModule ELSE Fqn(TreeModule, d.node)

Documented(d) == HasDocstring(d.node.body)
DocstringOf(d) == d.node.body[1].value.v

-----------------------------------------------------------------------------
(* Claims about one tree *)

\* C1: removal is idempotent: stripping an already stripped tree changes
\* nothing, strip(strip(t)) = strip(t), for every tree t.
C1_StripIdempotent ==
    Len(trees) >= 3 => trees[3] = trees[2]

\* C2: round trip: no qualified name that extraction maps to a docstring on
\* the parsed tree has an entry in the extraction of the stripped tree.
C2_RoundTrip ==
    (0 \in DOMAIN extracted /\ 1 \in DOMAIN extracted)
        => DOMAIN extracted[0] \cap DOMAIN extracted[1] = {}

\* C3: after strip the tree is well-formed: every class, function and
\* async-function body holds at least one statement, a placeholder standing
\* in for a docstring that was the sole statement of its body.
C3_StrippedWellFormed ==
    \A i \in 2..Len(trees) : WellFormed(trees[i])

\* C4: the key recorded for a nested declaration is the qualified name of its
\* enclosing declaration, '.', and its own name, so the keys recorded are the
\* qualified names of the documented declarations, and two declarations get
\* the same key only when they have the same name in the same scope.
C4_NestedQualifiedName ==
    0 \in DOMAIN extracted =>
        LET ds == DeclsOfNode(trees[1], <<>>)
        IN  /\ DOMAIN extracted[0] =
                    {QualifiedName(ds[i]) : i \in {j \in 1..Len(ds) : Documented(ds[j])}}
            /\ \A i, j \in 1..Len(ds) :
                    CodeKey(ds[i]) = CodeKey(ds[j])
                        => QualifiedName(ds[i]) = QualifiedName(ds[j])

\* the last documented declaration, in pre-order, that has the qualified name q
LastDocumented(ds, q) ==
    LET js == {j \in 1..Len(ds) : Documented(ds[j]) /\ QualifiedName(ds[j]) = q}
    IN  CHOOSE j \in js : \A k \in js : k <= j

\* C5: extraction records exactly the leading docstrings: every module,
\* class, function and async function, at any depth, whose body starts with a
\* string literal has its qualified name mapped to the literal of the last
\* such declaration of that name in pre-order, and the output has no other key.
C5_ExtractsLeadingDocstrings ==
    0 \in DOMAIN extracted =>
        LET ds == DeclsOfNode(trees[1], <<>>)
            out == extracted[0]
        IN  /\ \A i \in 1..Len(ds) :
                    Documented(ds[i]) =>
                        /\ QualifiedName(ds[i]) \in DOMAIN out
                        /\ out[QualifiedName(ds[i])] =
                                DocstringOf(ds[LastDocumented(ds, QualifiedName(ds[i]))])
            /\ \A q \in DOMAIN out :
                    \E i \in 1..Len(ds) : Documented(ds[i]) /\ QualifiedName(ds[i]) = q

-----------------------------------------------------------------------------
(* Claims about match_symbols *)

\* the entries of the docstrings dict whose key has the leaf of key
Candidates(key) ==
    {j \in 1..Len(docstrings_data) :
        LastSegment(docstrings_data[j][1]) = LastSegment(key)}

\* C6: match prefers the exact key: a source entry whose key is a key of the
\* target map is matched to that key and to the target's text for it,
\* whatever the scores of the other target entries with the same leaf.
C6_ExactKeyPreferred ==
    pc = "matched" =>
        \A i \in 1..Len(summary_data) :
            summary_data[i][1] \in KeysOf(docstrings_data) =>
                /\ results[i].docstring_symbol = summary_data[i][1]
                /\ results[i].docstring_description =
                        Lookup(docstrings_data, summary_data[i][1])

\* an exact match was made although another entry with the same leaf scores higher
C6_Witness ==
    /\ pc = "matched"
    /\ \E i \in 1..Len(summary_data) :
        /\ summary_data[i][1] \in KeysOf(docstrings_data)
        /\ \E j \in Candidates(summary_data[i][1]) :
            /\ docstrings_data[j][1] # summary_data[i][1]
            /\ calculate_similarity(summary_data[i][2], docstrings_data[j][2])
                    > results[i].similarity

\* C9: NO_MATCH is emitted only when the target map has neither the key nor
\* any key with the same leaf; when the key is absent and there are same-leaf
\* candidates (also when they all score 0), the result names a candidate
\* whose score is the maximum over the candidates.
C9_NoMatchOnlyWithoutCandidates ==
    pc = "matched" =>
        \A i \in 1..Len(summary_data) :
            LET key == summary_data[i][1]
                score(j) == calculate_similarity(summary_data[i][2], docstrings_data[j][2])
            IN  /\ results[i].docstring_symbol = NO_MATCH =>
                        key \notin KeysOf(docstrings_data) /\ Candidates(key) = {}
                /\ (key \notin KeysOf(docstrings_data) /\ Candidates(key) # {}) =>
                        \E j \in Candidates(key) :
                            /\ results[i].docstring_symbol = docstrings_data[j][1]
                            /\ results[i].similarity = score(j)
                            /\ \A k \in Candidates(key) : score(k) <= score(j)

\* C10: fuzzy matching is deterministic under ties: two target maps with the
\* same entries in different iteration orders give the same match results.
C10_OrderIndependent ==
    pc = "matched" =>
        \A perm \in Permutations(1..Len(docstrings_data)) :
            match_symbols(summary_data,
                          [j \in 1..Len(docstrings_data) |-> docstrings_data[perm[j]]])
                = results

-----------------------------------------------------------------------------
(* Claims about the module name *)

\* C8: the module identifier of a package initializer __init__.py, in any
\* directory at or below the base path, is the identifier of its directory
\* and has no __init__ segment; that of any other .py file is its relative
\* path without the extension, the separators replaced by '.'.
C8_ModuleIdentifier ==
    pc = "named" =>
        LET rel == SubSeq(file_path, Len(base_path) + 1, Len(file_path))
            dirs == SubSeq(rel, 1, Len(rel) - 1)
            file == rel[Len(rel)]
        IN  IF file = <<"__init__">> \o PyExt
            THEN /\ module_name = Join(dirs, ".")
                 /\ \A i \in 1..Len(module_name) : module_name[i] # "__init__"
            ELSE module_name = Join(dirs \o <<DropLast(file, 2)>>, ".")

-----------------------------------------------------------------------------
(* Claims about the corpus *)

\* the files in the order main processes them
Before(a, b) == a[1] < b[1] \/ (a[1] = b[1] /\ a[2] < b[2])

\* what extraction gets from a file as it was when main started
Yield(id) ==
    IF ParseFails(original[id]) THEN EmptyDict
    ELSE extract_symbols_from_file(original[id], PathOf(projects, id[1], id[2]),
                                   ProjectPath(id[1]))

\* C7: corpus merging is last-write-wins in processing order: in the end the
\* corpus maps each qualified name to the docstring of the last processed
\* file that yielded the name, and keeps every name some file yielded.
C7_LastWriteWins ==
    pc = "done" =>
        LET ids == DOMAIN original
        IN  /\ DOMAIN all_symbols = UNION {DOMAIN Yield(id) : id \in ids}
            /\ \A q \in DOMAIN all_symbols :
                \E id \in ids :
                    /\ q \in DOMAIN Yield(id)
                    /\ \A later \in ids : Before(id, later) => q \notin DOMAIN Yield(later)
                    /\ all_symbols[q] = Yield(id)[q]

\* two files yielded different docstrings for one name, and main is done
C7_Witness ==
    /\ pc = "done"
    /\ \E a, b \in DOMAIN original :
        /\ Before(a, b)
        /\ \E q \in DOMAIN Yield(a) \cap DOMAIN Yield(b) : Yield(a)[q] # Yield(b)[q]


-----------------------------------------------------------------------------
(* Stripping a project in place *)

\* C11: stripping writes a file all-or-nothing: every file of a project holds
\* either the complete re-serialized stripped source of what it held, or,
\* when reading, parsing, serialization or writing failed for it (and before
\* it is processed), its original content unchanged.
C11_AllOrNothing ==
    \A id \in DOMAIN disk :
        \/ disk[id] = original[id]
        \/ /\ ~ParseFails(original[id])
           /\ disk[id] = Remover_visit(original[id])


-----------------------------------------------------------------------------
(* Extraction over a project with files that fail *)

\* the files of the current project whose extraction has been attempted
Attempted ==
    {id \in DOMAIN original :
        /\ id[1] = proj
        /\ pc = "extract" => id[2] < idx}

\* the extraction of the file at idx is about to fail
FailingAttempt ==
    /\ pc = "extract"
    /\ idx <= Len(projects[proj])
    /\ ParseFails(disk[<<proj, idx>>])

\* C12: a file whose extraction fails (unreadable or malformed source)
\* leaves the corpus exactly as it was before the file was attempted, and
\* extraction continues with the next file; the project's extraction holds,
\* and returns, exactly the entries of the other files attempted: every name
\* one of them yielded, with the docstring of the last that yielded it, and
\* no entry from a failed file.
C12_FailedFileSkipped ==
    /\ [][FailingAttempt =>
            /\ project_symbols' = project_symbols
            /\ all_symbols' = all_symbols
            /\ pc' = "extract" /\ proj' = proj /\ idx' = idx + 1]_vars
    /\ [](pc \in {"extract", "strip"} =>
            LET ok == {id \in Attempted : ~ParseFails(original[id])}
            IN  /\ DOMAIN project_symbols = UNION {DOMAIN Yield(id) : id \in ok}
                /\ \A q \in DOMAIN project_symbols :
                    \E id \in ok :
                        /\ q \in DOMAIN Yield(id)
                        /\ \A later \in ok :
                                Before(id, later) => q \notin DOMAIN Yield(later)
                        /\ project_symbols[q] = Yield(id)[q])

\* a file failed, a later file of the project yielded entries, and the
\* project's extraction has returned
C12_Witness ==
    /\ pc = "strip"
    /\ \E a, b \in Attempted :
        /\ Before(a, b)
        /\ ParseFails(original[a])
        /\ ~ParseFails(original[b])
        /\ DOMAIN Yield(b) # {}
        /\ DOMAIN Yield(b) \subseteq DOMAIN project_symbols


-----------------------------------------------------------------------------
(* The summary of the results *)

\* C13: summarize classifies every result into exactly one of exact, fuzzy
\* and no-match, for any result sequence (also one in which no result has a
\* positive score, and one in which a symbol is named NO_MATCH): the three
\* counts are reported and sum to the number of results, a result counts as
\* exact iff its source symbol equals its matched symbol and the matched
\* symbol is not the sentinel, and as no-match iff the matched symbol is the
\* sentinel.
C13_ClassifiesEveryResult ==
    pc = "analyzed" =>
        /\ {"exact_matches", "fuzzy_matches", "no_matches"} \subseteq DOMAIN report
        /\ report.exact_matches + report.fuzzy_matches + report.no_matches = Len(results)
        /\ report.exact_matches = Cardinality({i \in 1..Len(results) :
                /\ results[i].summary_symbol = results[i].docstring_symbol
                /\ results[i].docstring_symbol # <<"NO_MATCH">>})
        /\ report.no_matches = Cardinality({i \in 1..Len(results) :
                results[i].docstring_symbol = <<"NO_MATCH">>})

=============================================================================
